---- MODULE Spec2Model ----
(***************************************************************************)
(* ZpoolScrubMonitor: main.py (gate, supervision, execution record) and    *)
(* zfs_helpers.py (status parser, scrub starter).                          *)
(*                                                                         *)
(* Texts are sequences of one-character strings.  Percentages are kept in  *)
(* hundredths of a percent (12.34% is 1234), calendar time in days, the    *)
(* starter's clock in ticks of 0.5 s (one sleep(0.5)).                     *)
(*                                                                         *)
(* main.py:80 calls zfs_helpers.start_scrub, while zfs_helpers.py defines  *)
(* the starter under the name run_scrub and defines no start_scrub.        *)
(*   Spec        links the call to run_scrub (the starter the call means), *)
(*               so that the starter, the poll loop and the record write   *)
(*               are exercised;                                            *)
(*   SpecShipped is the program as the interpreter runs it: the attribute  *)
(*               lookup at main.py:80 raises AttributeError.               *)
(*   SpecParse   applies get_scrub_status to status texts;                 *)
(*   SpecGate    applies is_execution_necessary to records and clocks.     *)
(*   SpecGuard   runs two invocations side by side up to and past the      *)
(*               already-running guard of main.py:143-145.                 *)
(***************************************************************************)
EXTENDS Integers, Sequences, FiniteSets, TLC

VARIABLES
    pc,               \* position of the current invocation of main.py
    now,              \* datetime.now(), in days
    file,             \* content of last-execution.txt (_LAST_EXECUTION_FILE_PATH)
    execution_after,  \* _execution_after (--execution-after), "None" when not given
    zpool,            \* _zpool (--zpool), "None" when not given
    ALL_ZPOOLS,       \* _ALL_ZPOOLS
    IS_DEBUGGER,      \* util.IS_DEBUGGER
    IS_SUDO,          \* util.IS_SUDO
    elapsed,          \* time() - _started_at in run_scrub, in ticks
    status,           \* _status: result of the most recent get_scrub_status
    addval,           \* _addval: percent (hundredths) or the raw text
    pbar_n,           \* _pbar.n, in hundredths
    reported,         \* the terminal outcome the invocation has logged
    logged,           \* the other warnings and errors it has logged
    cmds,             \* `zpool scrub` commands issued, and whether status was queried
    exit,             \* how the invocation ended
    hist,             \* history: what the gate read, what the loops observed
    arg,              \* input of the function under test (SpecParse, SpecGate);
                      \* the command lines of the invocations (SpecGuard)
    ret               \* its result; how far each invocation has got (SpecGuard)

vars == <<pc, now, file, execution_after, zpool, ALL_ZPOOLS, IS_DEBUGGER, IS_SUDO,
          elapsed, status, addval, pbar_n, reported, logged, cmds, exit, hist, arg, ret>>

progvars == <<pc, now, file, execution_after, zpool, ALL_ZPOOLS, IS_DEBUGGER, IS_SUDO,
              elapsed, status, addval, pbar_n, reported, logged, cmds, exit, hist>>

----------------------------------------------------------------------------
(* Bounds *)

MaxLines == 2     \* lines of a status text given to the parser in SpecParse
MaxNow == 8       \* last day of the calendar in Spec
MaxJitter == 1    \* ticks one starter iteration may take beyond its sleep(0.5)
MaxClock == 32    \* last day of the clocks and records drawn in SpecGate

----------------------------------------------------------------------------
(* Characters and texts *)

Digits == {"0", "1", "2", "3", "4", "5", "6", "7", "8", "9"}

DigitVal(c) ==
    CASE c = "0" -> 0 [] c = "1" -> 1 [] c = "2" -> 2 [] c = "3" -> 3 [] c = "4" -> 4
      [] c = "5" -> 5 [] c = "6" -> 6 [] c = "7" -> 7 [] c = "8" -> 8 [] c = "9" -> 9

\* the characters \s matches
Whitespace == {" ", "\t", "\n", "\r"}

\* str.lower() / re.IGNORECASE, on the letters the texts use
Lower(c) ==
    CASE c = "E" -> "e" [] c = "R" -> "r" [] c = "O" -> "o" [] c = "S" -> "s"
      [] c = "N" -> "n" [] c = "L" -> "l" [] c = "I" -> "i" [] c = "B" -> "b"
      [] OTHER -> c

LineScanInProgress == \* "scan: scrub in progress"
    <<"s", "c", "a", "n", ":", " ", "s", "c", "r", "u", "b", " ", "i", "n", " ", "p", "r", "o", "g", "r", "e", "s", "s">>
LineScanRepaired == \* "scan: scrub repaired 0B"
    <<"s", "c", "a", "n", ":", " ", "s", "c", "r", "u", "b", " ", "r", "e", "p", "a", "i", "r", "e", "d", " ", "0", "B">>
LinePct0 == \* " 0.00% done"
    <<" ", "0", ".", "0", "0", "%", " ", "d", "o", "n", "e">>
LinePct12 == \* " 12.34% done"
    <<" ", "1", "2", ".", "3", "4", "%", " ", "d", "o", "n", "e">>
LinePct7 == \* " 7.5% done"
    <<" ", "7", ".", "5", "%", " ", "d", "o", "n", "e">>
LinePct99 == \* " 99.99% done"
    <<" ", "9", "9", ".", "9", "9", "%", " ", "d", "o", "n", "e">>
LinePct100 == \* " 100.00% done"
    <<" ", "1", "0", "0", ".", "0", "0", "%", " ", "d", "o", "n", "e">>
LineErrorsNone == \* "errors: No known data errors"
    <<"e", "r", "r", "o", "r", "s", ":", " ", "N", "o", " ", "k", "n", "o", "w", "n", " ", "d", "a", "t", "a", " ", "e", "r", "r", "o", "r", "s">>
LineErrorsUpper == \* "ERRORS:  NO known data errors"
    <<"E", "R", "R", "O", "R", "S", ":", " ", " ", "N", "O", " ", "k", "n", "o", "w", "n", " ", "d", "a", "t", "a", " ", "e", "r", "r", "o", "r", "s">>
LineErrorsSome == \* "errors: 3 data errors"
    <<"e", "r", "r", "o", "r", "s", ":", " ", "3", " ", "d", "a", "t", "a", " ", "e", "r", "r", "o", "r", "s">>
LineErrorsNoBare == \* "errors: no"
    <<"e", "r", "r", "o", "r", "s", ":", " ", "n", "o">>
LineErrorsBlank == \* "errors: "
    <<"e", "r", "r", "o", "r", "s", ":", " ">>
LineNoSpares == \* "no spares"
    <<"n", "o", " ", "s", "p", "a", "r", "e", "s">>
LineState == \* " state: ONLINE"
    <<" ", "s", "t", "a", "t", "e", ":", " ", "O", "N", "L", "I", "N", "E">>

\* the lines `zpool status` output is put together from
StatusLines ==
    {LineScanInProgress, LineScanRepaired, LinePct0, LinePct12, LinePct7, LinePct99,
     LinePct100, LineErrorsNone, LineErrorsUpper, LineErrorsSome, LineErrorsNoBare,
     LineErrorsBlank, LineNoSpares, LineState}

RECURSIVE JoinLines(_)
\* the text whose lines are ls, each ended by a newline
JoinLines(ls) ==
    IF ls = <<>> THEN <<>> ELSE Head(ls) \o <<"\n">> \o JoinLines(Tail(ls))

\* _result.stdout of `zpool status`, up to n lines
StatusTexts(n) ==
    {JoinLines(ls) : ls \in UNION {[1..k -> StatusLines] : k \in 0..n}}

----------------------------------------------------------------------------
(* zfs_helpers.get_scrub_status *)

\* one attempt of (\d{1,2}\.\d{1,2})% at index i: the index of its "%", or 0
PercentMatchEnd(s, i) ==
    LET try(a, b) ==
            /\ i + a + b + 1 <= Len(s)
            /\ \A k \in i..(i + a - 1) : s[k] \in Digits
            /\ s[i + a] = "."
            /\ \A k \in (i + a + 1)..(i + a + b) : s[k] \in Digits
            /\ s[i + a + b + 1] = "%"
    IN  IF try(2, 2) THEN i + 5
        ELSE IF try(2, 1) THEN i + 4
        ELSE IF try(1, 2) THEN i + 4
        ELSE IF try(1, 1) THEN i + 3
        ELSE 0

RECURSIVE findall(_, _)
\* re.findall(r"(\d{1,2}\.\d{1,2})%", s) from index i on: leftmost matches, not overlapping
findall(s, i) ==
    IF i > Len(s) THEN <<>>
    ELSE LET e == PercentMatchEnd(s, i)
         IN  IF e = 0 THEN findall(s, i + 1)
             ELSE <<SubSeq(s, i, e - 1)>> \o findall(s, e + 1)

\* float(m) of a matched "d.d", "dd.d", "d.dd" or "dd.dd", in hundredths
float(m) ==
    LET dot == CHOOSE k \in 1..Len(m) : m[k] = "."
        whole == IF dot = 2 THEN DigitVal(m[1])
                 ELSE 10 * DigitVal(m[1]) + DigitVal(m[2])
        frac == IF Len(m) - dot = 1 THEN 10 * DigitVal(m[dot + 1])
                ELSE 10 * DigitVal(m[dot + 1]) + DigitVal(m[dot + 2])
    IN  100 * whole + frac

RECURSIVE SkipWhitespace(_, _)
\* \s* from index j: the first index it does not consume (newlines are consumed)
SkipWhitespace(s, j) ==
    IF j <= Len(s) /\ s[j] \in Whitespace THEN SkipWhitespace(s, j + 1) ELSE j

RECURSIVE LineEnd(_, _)
\* .* from index j: the first index it does not consume (a newline, or the end)
LineEnd(s, j) ==
    IF j <= Len(s) /\ s[j] # "\n" THEN LineEnd(s, j + 1) ELSE j

\* where ^errors: matches under re.IGNORECASE | re.MULTILINE
ErrorsMatchAt(s, i) ==
    /\ i = 1 \/ s[i - 1] = "\n"
    /\ i + 6 <= Len(s)
    /\ [k \in 1..7 |-> Lower(s[i + k - 1])] = <<"e", "r", "r", "o", "r", "s", ":">>

\* re.search(r"^errors:\s*(.*)\s*$", s, re.IGNORECASE | re.MULTILINE):
\* group(1) of the first match, or no match
search_errors(s) ==
    LET hits == {i \in 1..Len(s) : ErrorsMatchAt(s, i)}
    IN  IF hits = {} THEN [matched |-> FALSE, group |-> <<>>]
        ELSE LET i == CHOOSE h \in hits : \A g \in hits : h <= g
                 j == SkipWhitespace(s, i + 7)
             IN  [matched |-> TRUE, group |-> SubSeq(s, j, LineEnd(s, j) - 1)]

\* _err_str.lower().startswith("no ")
startswith_no(g) ==
    /\ Len(g) >= 3
    /\ Lower(g[1]) = "n"
    /\ Lower(g[2]) = "o"
    /\ g[3] = " "

Raised(e) == [exc |-> e, status |-> "None", percent |-> 0, detail |-> <<>>]

Returned(st, p, d) == [exc |-> "None", status |-> st, percent |-> p, detail |-> d]

\* get_scrub_status without the test of line 37: of several matches the
\* first is taken
get_scrub_status_first_match(result) ==
    IF result.returncode # 0 THEN Raised("Error while getting scrub status")
    ELSE LET matches == findall(result.stdout, 1)
         IN  IF Len(matches) >= 1
             THEN Returned("SCANNING", float(matches[1]), <<>>)
             ELSE LET m == search_errors(result.stdout)
                  IN  IF ~m.matched THEN Raised("Unexpected output format")
                      ELSE IF startswith_no(m.group)
                           THEN Returned("NO_ERRORS", 0, result.stdout)
                      ELSE Returned("ERRORS", 0, result.stdout)

\* get_scrub_status on the finished subprocess _result = [returncode, stdout]
get_scrub_status(result) ==
    IF result.returncode # 0 THEN Raised("Error while getting scrub status")
    ELSE LET matches == findall(result.stdout, 1)
         IN  IF Len(matches) > 1 THEN Raised("Unexpected output format")
             ELSE IF Len(matches) = 1
                  THEN Returned("SCANNING", float(matches[1]), <<>>)
             ELSE LET m == search_errors(result.stdout)
                  IN  IF ~m.matched THEN Raised("Unexpected output format")
                      ELSE IF startswith_no(m.group)
                           THEN Returned("NO_ERRORS", 0, result.stdout)
                      ELSE Returned("ERRORS", 0, result.stdout)

----------------------------------------------------------------------------
(* main.py: the execution record and the gate *)

Day == 1          \* timedelta(days=1)
Week == 7         \* timedelta(weeks=1)
TwoWeeks == 14    \* timedelta(weeks=2)
Month == 30       \* timedelta(days=30)

\* choices of --execution-after
Policies == {"day", "week", "2weeks", "month"}

\* last-execution.txt: no file, a file fromisoformat() rejects (empty, cut
\* short, foreign), or the isoformat() of the time t
NoFile == [kind |-> "absent", t |-> 0]

Garbage == [kind |-> "garbage", t |-> 0]

\* datetime.isoformat(), as file content
isoformat(t) == [kind |-> "iso", t |-> t]

\* datetime.fromisoformat(content.strip())
fromisoformat(content) ==
    IF content.kind = "iso" THEN [exc |-> "None", t |-> content.t]
    ELSE [exc |-> "ValueError", t |-> 0]

\* open(_LAST_EXECUTION_FILE_PATH, "r") and file.read(); io_ok is whether the
\* operating system lets the read through
open_read(f, io_ok) ==
    IF f.kind = "absent" THEN [exc |-> "FileNotFoundError", content |-> f]
    ELSE IF ~io_ok THEN [exc |-> "OSError", content |-> f]
    ELSE [exc |-> "None", content |-> f]

\* read_last_execution_time(), a narrower except clause: only a missing file
read_last_execution_time_narrow(f, io_ok) ==
    LET r == open_read(f, io_ok)
        d == fromisoformat(r.content)
    IN  IF r.exc = "FileNotFoundError" THEN [exc |-> "None", some |-> FALSE, t |-> 0]
        ELSE IF r.exc # "None" THEN [exc |-> r.exc, some |-> FALSE, t |-> 0]
        ELSE IF d.exc # "None" THEN [exc |-> d.exc, some |-> FALSE, t |-> 0]
        ELSE [exc |-> "None", some |-> TRUE, t |-> d.t]

\* read_last_execution_time(): the recorded time, or None (some = FALSE) on
\* any exception other than SystemExit and KeyboardInterrupt
read_last_execution_time(f, io_ok) ==
    LET r == open_read(f, io_ok)
        d == fromisoformat(r.content)
        e == IF r.exc # "None" THEN r.exc ELSE d.exc
    IN  IF e \in {"SystemExit", "KeyboardInterrupt"}
        THEN [exc |-> e, some |-> FALSE, t |-> 0]
        ELSE IF e # "None" THEN [exc |-> "None", some |-> FALSE, t |-> 0]
        ELSE [exc |-> "None", some |-> TRUE, t |-> d.t]

\* what the gate got from read_last_execution_time(), for the history
LastRead(f, io_ok) ==
    [some |-> read_last_execution_time(f, io_ok).some,
     t |-> read_last_execution_time(f, io_ok).t]

\* is_execution_necessary with <= in place of <
is_execution_necessary_le(ea, f, io_ok, clock) ==
    LET last == read_last_execution_time(f, io_ok)
        since == clock - last.t
    IN  IF last.exc # "None" THEN [exc |-> last.exc, value |-> FALSE]
        ELSE IF ~last.some THEN [exc |-> "None", value |-> TRUE]
        ELSE IF ea = "week" /\ since <= Week THEN [exc |-> "None", value |-> FALSE]
        ELSE IF ea = "2weeks" /\ since <= TwoWeeks THEN [exc |-> "None", value |-> FALSE]
        ELSE IF ea = "day" /\ since <= Day THEN [exc |-> "None", value |-> FALSE]
        ELSE IF ea = "month" /\ since <= Month THEN [exc |-> "None", value |-> FALSE]
        ELSE [exc |-> "None", value |-> TRUE]

\* is_execution_necessary(execution_after) with the record f and datetime.now() = clock
is_execution_necessary(ea, f, io_ok, clock) ==
    LET last == read_last_execution_time(f, io_ok)
        since == clock - last.t
    IN  IF last.exc # "None" THEN [exc |-> last.exc, value |-> FALSE]
        ELSE IF ~last.some THEN [exc |-> "None", value |-> TRUE]
        ELSE IF ea = "week" /\ since < Week THEN [exc |-> "None", value |-> FALSE]
        ELSE IF ea = "2weeks" /\ since < TwoWeeks THEN [exc |-> "None", value |-> FALSE]
        ELSE IF ea = "day" /\ since < Day THEN [exc |-> "None", value |-> FALSE]
        ELSE IF ea = "month" /\ since < Month THEN [exc |-> "None", value |-> FALSE]
        ELSE [exc |-> "None", value |-> TRUE]

----------------------------------------------------------------------------
(* The functions on their own: SpecParse, SpecGate *)

NoHist ==
    [gated |-> FALSE, last |-> [some |-> FALSE, t |-> 0],
     file0 |-> NoFile, confirmed |-> FALSE, seen |-> -1, wrote |-> FALSE]

NoAddval == [percent |-> 0, detail |-> <<>>]

NoCmds == [scrub |-> 0, status |-> 0]

NoZpool == [given |-> FALSE, name |-> <<>>]

\* the program's variables while a function is exercised on its own
ProgIdle ==
    /\ pc = "idle"
    /\ now = 0
    /\ execution_after = "None"
    /\ zpool = NoZpool
    /\ ALL_ZPOOLS = <<>>
    /\ IS_DEBUGGER = FALSE
    /\ IS_SUDO = TRUE
    /\ elapsed = 0
    /\ status = "None"
    /\ addval = NoAddval
    /\ pbar_n = 0
    /\ reported = "None"
    /\ logged = {}
    /\ cmds = NoCmds
    /\ exit = "None"
    /\ hist = NoHist

NoResult == [exc |-> "None", status |-> "None", percent |-> 0, detail |-> <<>>]

InitParse ==
    /\ ProgIdle
    /\ file = NoFile
    /\ arg \in [returncode : {0, 1}, stdout : StatusTexts(MaxLines)]
    /\ ret = [called |-> FALSE, value |-> NoResult]

\* get_scrub_status is called on the drawn subprocess result
Parse ==
    /\ ~ret.called
    /\ ret' = [called |-> TRUE, value |-> get_scrub_status(arg)]
    /\ UNCHANGED <<progvars, arg>>

NextParse == Parse

SpecParse == InitParse /\ [][NextParse]_vars

\* the records a gate check may find
Files(last) == {NoFile, Garbage} \cup {isoformat(t) : t \in 0..last}

InitGate ==
    /\ ProgIdle
    /\ file = NoFile
    /\ arg \in [execution_after : Policies, file : Files(MaxClock),
                io_ok : BOOLEAN, now : 0..MaxClock]
    /\ ret = [called |-> FALSE, value |-> [exc |-> "None", value |-> FALSE]]

\* is_execution_necessary is called on the drawn record and clock
Gate ==
    /\ ~ret.called
    /\ ret' = [called |-> TRUE,
               value |-> is_execution_necessary(arg.execution_after, arg.file,
                                                arg.io_ok, arg.now)]
    /\ UNCHANGED <<progvars, arg>>

NextGate == Gate

SpecGate == InitGate /\ [][NextGate]_vars

----------------------------------------------------------------------------
(* zfs_helpers.get_all_zpools *)

PoolTank == <<"t", "a", "n", "k">>

PoolBak == <<"b", "a", "k">>

PoolNope == <<"n", "o", "p", "e">>

\* the finished `zpool list -H -o name`: a failure, no pool, two pools
ZpoolListings ==
    {[returncode |-> 1, stdout |-> <<>>],
     [returncode |-> 0, stdout |-> <<>>],
     [returncode |-> 0, stdout |-> JoinLines(<<PoolTank, PoolBak>>)]}

\* util.IS_DEBUGGER and util.IS_SUDO: root, an ordinary user, a debugger
\* (under a debugger line 149 does not look at IS_SUDO)
Environments ==
    {[debugger |-> FALSE, sudo |-> TRUE],
     [debugger |-> FALSE, sudo |-> FALSE],
     [debugger |-> TRUE, sudo |-> FALSE]}

RECURSIVE lstrip(_)
lstrip(s) == IF s # <<>> /\ Head(s) \in Whitespace THEN lstrip(Tail(s)) ELSE s

RECURSIVE rstrip(_)
rstrip(s) ==
    IF s # <<>> /\ s[Len(s)] \in Whitespace THEN rstrip(SubSeq(s, 1, Len(s) - 1)) ELSE s

\* str.strip()
strip(s) == rstrip(lstrip(s))

RECURSIVE split_newline(_)
\* str.split("\n"): one more piece than there are newlines, so [""] for ""
split_newline(s) ==
    LET brk == {i \in 1..Len(s) : s[i] = "\n"}
    IN  IF brk = {} THEN <<s>>
        ELSE LET b == CHOOSE i \in brk : \A j \in brk : i <= j
             IN  <<SubSeq(s, 1, b - 1)>> \o split_newline(SubSeq(s, b + 1, Len(s)))

\* get_all_zpools() on the finished subprocess
get_all_zpools(result) ==
    IF result.returncode # 0
    THEN [exc |-> "Error while getting all zpools", list |-> <<>>]
    ELSE [exc |-> "None", list |-> split_newline(strip(result.stdout))]

\* whether the storage subsystem has a pool of this name: _ALL_ZPOOLS holds
\* the names it listed (and "" when it listed none)
PoolExists(name) ==
    name # <<>> /\ \E i \in 1..Len(ALL_ZPOOLS) : ALL_ZPOOLS[i] = name

----------------------------------------------------------------------------
(* main.py: one invocation after the other *)

TimeoutTicks == 10    \* timeout_seconds=5, in ticks of 0.5 s

SleepTicks == 1       \* sleep(0.5)

\* the finished `zpool status <pool>` the program may be handed
StatusResults ==
    {[returncode |-> 1, stdout |-> <<>>]}
    \cup {[returncode |-> 0, stdout |-> JoinLines(<<LineScanInProgress, l, LineErrorsNone>>)] :
             l \in {LinePct0, LinePct12, LinePct99, LinePct100}}
    \cup {[returncode |-> 0, stdout |-> JoinLines(ls)] :
             ls \in {<<LineScanRepaired, LineErrorsNone>>,
                     <<LineScanRepaired, LineErrorsSome>>,
                     <<LineState>>}}

\* each result with what get_scrub_status makes of it
StatusReplies == [r \in StatusResults |-> get_scrub_status(r)]

\* --zpool not given, an existing pool, a pool that does not exist
ZpoolArgs == {NoZpool, [given |-> TRUE, name |-> PoolBak], [given |-> TRUE, name |-> PoolNope]}

\* no invocation yet; the record may be there from an earlier installation
Init ==
    /\ ProgIdle
    /\ file \in Files(0)
    /\ arg = 0
    /\ ret = 0

\* the per-invocation variables of an invocation that is over or not begun
Cleared ==
    /\ execution_after' = "None"
    /\ zpool' = NoZpool
    /\ ALL_ZPOOLS' = <<>>
    /\ IS_DEBUGGER' = FALSE
    /\ IS_SUDO' = TRUE
    /\ elapsed' = 0
    /\ status' = "None"
    /\ addval' = NoAddval
    /\ pbar_n' = 0
    /\ reported' = "None"
    /\ logged' = {}
    /\ cmds' = NoCmds
    /\ exit' = "None"
    /\ hist' = NoHist

\* the invocation ends with e, having logged what is in msgs
Ends(e, msgs) ==
    /\ pc' = "exited"
    /\ exit' = e
    /\ logged' = logged \cup msgs

\* The environment: days pass between invocations (an invocation reads the
\* clock at the gate and at the record write, within one day).
Tick ==
    /\ pc = "idle"
    /\ now < MaxNow
    /\ now' = now + 1
    /\ UNCHANGED <<pc, file, execution_after, zpool, ALL_ZPOOLS, IS_DEBUGGER, IS_SUDO,
                   elapsed, status, addval, pbar_n, reported, logged, cmds, exit, hist,
                   arg, ret>>

\* The environment: the record is lost or damaged between invocations.
Damage ==
    /\ pc = "idle"
    /\ \E f \in {NoFile, Garbage} : f # file /\ file' = f
    /\ UNCHANGED <<pc, now, execution_after, zpool, ALL_ZPOOLS, IS_DEBUGGER, IS_SUDO,
                   elapsed, status, addval, pbar_n, reported, logged, cmds, exit, hist,
                   arg, ret>>

\* The process starts: import (line 33), argument parsing, the Telegram
\* arguments (lines 130-141).
Launch ==
    /\ pc = "idle"
    /\ \E listing \in ZpoolListings, ea \in Policies \cup {"None"}, z \in ZpoolArgs,
          env \in Environments, telegram_args \in 0..2 :
         LET pools == get_all_zpools(listing)
         IN  IF pools.exc # "None"
             THEN /\ Ends(pools.exc, {pools.exc})
                  /\ UNCHANGED <<execution_after, zpool, ALL_ZPOOLS, IS_DEBUGGER, IS_SUDO>>
             ELSE /\ ALL_ZPOOLS' = pools.list
                  /\ execution_after' = ea
                  /\ zpool' = z
                  /\ IS_DEBUGGER' = env.debugger
                  /\ IS_SUDO' = env.sudo
                  /\ IF telegram_args = 1
                     THEN Ends("exit(1)", {"Either none of Telegram API token and chat ID"})
                     ELSE pc' = "guard" /\ UNCHANGED <<exit, logged>>
    /\ hist' = [hist EXCEPT !.file0 = file]
    /\ UNCHANGED <<now, file, elapsed, status, addval, pbar_n, reported, cmds, arg, ret>>

\* lines 143-145: _is_already_running(), read off the process table
CheckAlreadyRunning ==
    /\ pc = "guard"
    /\ \E other_instance \in BOOLEAN :
         IF other_instance
         THEN Ends("exit(0)", {"Another instance of myself is already active"})
         ELSE pc' = "pools" /\ UNCHANGED <<exit, logged>>
    /\ UNCHANGED <<now, file, execution_after, zpool, ALL_ZPOOLS, IS_DEBUGGER, IS_SUDO,
                   elapsed, status, addval, pbar_n, reported, cmds, hist, arg, ret>>

\* lines 146-148
CheckPools ==
    /\ pc = "pools"
    /\ IF Len(ALL_ZPOOLS) = 0
       THEN Ends("exit(0)", {"No zpools available on the system"})
       ELSE pc' = "sudo" /\ UNCHANGED <<exit, logged>>
    /\ UNCHANGED <<now, file, execution_after, zpool, ALL_ZPOOLS, IS_DEBUGGER, IS_SUDO,
                   elapsed, status, addval, pbar_n, reported, cmds, hist, arg, ret>>

\* lines 149-151
CheckSudo ==
    /\ pc = "sudo"
    /\ IF IS_DEBUGGER = FALSE /\ IS_SUDO = FALSE
       THEN Ends("exit(1)", {"This script must be launched with sudo permissions"})
       ELSE pc' = "gate" /\ UNCHANGED <<exit, logged>>
    /\ UNCHANGED <<now, file, execution_after, zpool, ALL_ZPOOLS, IS_DEBUGGER, IS_SUDO,
                   elapsed, status, addval, pbar_n, reported, cmds, hist, arg, ret>>

\* lines 153-156 with the exit(0) left out
CheckGate_no_exit ==
    /\ pc = "gate"
    /\ \E io_ok \in BOOLEAN :
         LET need == is_execution_necessary(execution_after, file, io_ok, now)
         IN  /\ hist' = IF execution_after = "None" THEN hist
                        ELSE [hist EXCEPT !.gated = TRUE, !.last = LastRead(file, io_ok)]
             /\ pc' = "select"
             /\ exit' = exit
             /\ logged' = IF execution_after # "None" /\ need.value = FALSE
                          THEN logged \cup {"Execution not necessary right now"}
                          ELSE logged
    /\ UNCHANGED <<now, file, execution_after, zpool, ALL_ZPOOLS, IS_DEBUGGER, IS_SUDO,
                   elapsed, status, addval, pbar_n, reported, cmds, arg, ret>>

\* lines 153-156: the gate, when a policy is given
CheckGate ==
    /\ pc = "gate"
    /\ \E io_ok \in BOOLEAN :
         LET need == is_execution_necessary(execution_after, file, io_ok, now)
         IN  /\ hist' = IF execution_after = "None" THEN hist
                        ELSE [hist EXCEPT !.gated = TRUE, !.last = LastRead(file, io_ok)]
             /\ IF execution_after # "None" /\ need.value = FALSE
                THEN Ends("exit(0)", {"Execution not necessary right now"})
                ELSE pc' = "select" /\ UNCHANGED <<exit, logged>>
    /\ UNCHANGED <<now, file, execution_after, zpool, ALL_ZPOOLS, IS_DEBUGGER, IS_SUDO,
                   elapsed, status, addval, pbar_n, reported, cmds, arg, ret>>

\* lines 158-161: the default pool, and the error logged for an unknown one
\* (no exit follows the error)
SelectZpool ==
    /\ pc = "select"
    /\ LET z == IF zpool.given THEN zpool ELSE [given |-> TRUE, name |-> ALL_ZPOOLS[1]]
       IN  /\ zpool' = z
           /\ logged' = IF \E i \in 1..Len(ALL_ZPOOLS) : ALL_ZPOOLS[i] = z.name
                        THEN logged
                        ELSE logged \cup {"Zpool does not exist on the system"}
    /\ pc' = "start"
    /\ UNCHANGED <<now, file, execution_after, ALL_ZPOOLS, IS_DEBUGGER, IS_SUDO,
                   elapsed, status, addval, pbar_n, reported, cmds, exit, hist, arg, ret>>

\* zfs_helpers.py lines 57-64, entered from main.py:80: the scrub command
\* (none under a debugger), and _started_at = time()
run_scrub_command ==
    /\ pc = "start"
    /\ \E returncode \in {0, 1} :
         /\ returncode = 0 => (IS_DEBUGGER \/ PoolExists(zpool.name))
         /\ IS_DEBUGGER => returncode = 0
         /\ cmds' = IF IS_DEBUGGER THEN cmds ELSE [cmds EXCEPT !.scrub = @ + 1]
         /\ IF returncode # 0
            THEN /\ Ends("Error while running scrub", {"Error while running scrub"})
                 /\ UNCHANGED elapsed
            ELSE /\ pc' = "confirm"
                 /\ elapsed' = 0
                 /\ UNCHANGED <<exit, logged>>
    /\ UNCHANGED <<now, file, execution_after, zpool, ALL_ZPOOLS, IS_DEBUGGER, IS_SUDO,
                   status, addval, pbar_n, reported, hist, arg, ret>>

\* line 71 with the budget taken in seconds against a clock in half seconds
timed_out_in_seconds(ticks) == ticks > 5

\* line 71: the starter gives up
timed_out(ticks) == ticks > TimeoutTicks

\* zfs_helpers.py lines 66-74 with the raise left out: the loop is left
\* on a timeout as it is on SCANNING
run_scrub_poll_no_raise ==
    /\ pc = "confirm"
    /\ \E r \in StatusResults, jitter \in 0..MaxJitter :
         LET got == StatusReplies[r]
             ticks == elapsed + SleepTicks + jitter
         IN  /\ r.returncode = 0 => PoolExists(zpool.name)
             /\ cmds' = [cmds EXCEPT !.status = 1]
             /\ elapsed' = ticks
             /\ IF got.exc # "None"
                THEN /\ Ends(got.exc, {got.exc})
                     /\ UNCHANGED <<status, addval, pbar_n, hist>>
                ELSE /\ status' = got.status
                     /\ addval' = [percent |-> got.percent, detail |-> got.detail]
                     /\ IF got.status = "SCANNING" \/ timed_out(ticks)
                        THEN /\ pc' = "started"
                             /\ hist' = [hist EXCEPT !.confirmed = (got.status = "SCANNING")]
                             /\ UNCHANGED <<pbar_n, exit, logged>>
                        ELSE /\ pc' = "confirm"
                             /\ UNCHANGED <<pbar_n, hist, exit, logged>>
    /\ UNCHANGED <<now, file, execution_after, zpool, ALL_ZPOOLS, IS_DEBUGGER, IS_SUDO,
                   reported, arg, ret>>

\* zfs_helpers.py lines 66-74 with the error of the status query caught:
\* run_scrub returns as if the scrub had started
run_scrub_poll_error_caught ==
    /\ pc = "confirm"
    /\ \E r \in StatusResults, jitter \in 0..MaxJitter :
         LET got == StatusReplies[r]
             ticks == elapsed + SleepTicks + jitter
         IN  /\ r.returncode = 0 => PoolExists(zpool.name)
             /\ cmds' = [cmds EXCEPT !.status = 1]
             /\ elapsed' = ticks
             /\ IF got.exc # "None"
                THEN /\ pc' = "started"
                     /\ logged' = logged \cup {got.exc}
                     /\ UNCHANGED <<status, addval, pbar_n, hist, exit>>
                ELSE /\ status' = got.status
                     /\ addval' = [percent |-> got.percent, detail |-> got.detail]
                     /\ IF got.status = "SCANNING"
                        THEN /\ pc' = "started"
                             /\ hist' = [hist EXCEPT !.confirmed = TRUE]
                             /\ UNCHANGED <<pbar_n, exit, logged>>
                        ELSE IF timed_out(ticks)
                        THEN /\ Ends("Timeout while starting scrub",
                                     {"Timeout while starting scrub"})
                             /\ UNCHANGED <<pbar_n, hist>>
                        ELSE /\ pc' = "confirm"
                             /\ UNCHANGED <<pbar_n, hist, exit, logged>>
    /\ UNCHANGED <<now, file, execution_after, zpool, ALL_ZPOOLS, IS_DEBUGGER, IS_SUDO,
                   reported, arg, ret>>

\* zfs_helpers.py lines 66-74: one iteration of the starter's loop; on
\* SCANNING run_scrub returns
run_scrub_poll ==
    /\ pc = "confirm"
    /\ \E r \in StatusResults, jitter \in 0..MaxJitter :
         LET got == StatusReplies[r]
             ticks == elapsed + SleepTicks + jitter
         IN  /\ r.returncode = 0 => PoolExists(zpool.name)
             /\ cmds' = [cmds EXCEPT !.status = 1]
             /\ elapsed' = ticks
             /\ IF got.exc # "None"
                THEN /\ Ends(got.exc, {got.exc})
                     /\ UNCHANGED <<status, addval, pbar_n, hist>>
                ELSE /\ status' = got.status
                     /\ addval' = [percent |-> got.percent, detail |-> got.detail]
                     /\ IF got.status = "SCANNING"
                        THEN /\ pc' = "started"
                             /\ hist' = [hist EXCEPT !.confirmed = TRUE]
                             /\ UNCHANGED <<pbar_n, exit, logged>>
                        ELSE IF timed_out(ticks)
                        THEN /\ Ends("Timeout while starting scrub",
                                     {"Timeout while starting scrub"})
                             /\ UNCHANGED <<pbar_n, hist>>
                        ELSE /\ pc' = "confirm"
                             /\ UNCHANGED <<pbar_n, hist, exit, logged>>
    /\ UNCHANGED <<now, file, execution_after, zpool, ALL_ZPOOLS, IS_DEBUGGER, IS_SUDO,
                   reported, arg, ret>>

\* main.py lines 81-84: run_scrub has returned (its locals are gone) and the
\* progress bar is opened, total=100.0 and n = 0
open_progress_bar ==
    /\ pc = "started"
    /\ pc' = "monitor"
    /\ pbar_n' = 0
    /\ elapsed' = 0
    /\ UNCHANGED <<now, file, execution_after, zpool, ALL_ZPOOLS, IS_DEBUGGER, IS_SUDO,
                   status, addval, reported, logged, cmds, exit, hist, arg, ret>>

\* line 87 inverted: the loop is left while the pool is scanning
leaves_loop_inverted(st) == st = "SCANNING"

\* main.py line 87: the poll loop is left
leaves_loop(st) == st # "SCANNING"

\* tqdm's update(delta): n += delta
pbar_update(n, delta) == n + delta

\* lines 85-90 with a failed or malformed status query tried again
monitor_poll_retry ==
    /\ pc = "monitor"
    /\ \E r \in StatusResults :
         LET got == StatusReplies[r]
         IN  /\ r.returncode = 0 => PoolExists(zpool.name)
             /\ cmds' = [cmds EXCEPT !.status = 1]
             /\ IF got.exc # "None"
                THEN /\ pc' = "monitor"
                     /\ logged' = logged \cup {got.exc}
                     /\ UNCHANGED <<status, addval, pbar_n, hist, exit>>
                ELSE /\ status' = got.status
                     /\ addval' = [percent |-> got.percent, detail |-> got.detail]
                     /\ UNCHANGED <<exit, logged>>
                     /\ IF leaves_loop(got.status)
                        THEN /\ pc' = "report"
                             /\ UNCHANGED <<pbar_n, hist>>
                        ELSE /\ pc' = "monitor"
                             /\ pbar_n' = pbar_update(pbar_n, got.percent - pbar_n)
                             /\ hist' = [hist EXCEPT !.seen = got.percent]
    /\ UNCHANGED <<now, file, execution_after, zpool, ALL_ZPOOLS, IS_DEBUGGER, IS_SUDO,
                   elapsed, reported, arg, ret>>

\* main.py lines 85-90: one iteration of the supervisor's loop
monitor_poll ==
    /\ pc = "monitor"
    /\ \E r \in StatusResults :
         LET got == StatusReplies[r]
         IN  /\ r.returncode = 0 => PoolExists(zpool.name)
             /\ cmds' = [cmds EXCEPT !.status = 1]
             /\ IF got.exc # "None"
                THEN /\ Ends(got.exc, {got.exc})
                     /\ UNCHANGED <<status, addval, pbar_n, hist>>
                ELSE /\ status' = got.status
                     /\ addval' = [percent |-> got.percent, detail |-> got.detail]
                     /\ UNCHANGED <<exit, logged>>
                     /\ IF leaves_loop(got.status)
                        THEN /\ pc' = "report"
                             /\ UNCHANGED <<pbar_n, hist>>
                        ELSE /\ pc' = "monitor"
                             /\ pbar_n' = pbar_update(pbar_n, got.percent - pbar_n)
                             /\ hist' = [hist EXCEPT !.seen = got.percent]
    /\ UNCHANGED <<now, file, execution_after, zpool, ALL_ZPOOLS, IS_DEBUGGER, IS_SUDO,
                   elapsed, reported, arg, ret>>

\* lines 91-97 without the update that completes the bar
report_outcome_no_fill ==
    /\ pc = "report"
    /\ IF status = "NO_ERRORS"
       THEN /\ pbar_n' = pbar_n
            /\ reported' = "no errors"
            /\ pc' = "write"
            /\ UNCHANGED <<exit, logged>>
       ELSE IF status = "ERRORS"
       THEN /\ reported' = "error"
            /\ pc' = "write"
            /\ UNCHANGED <<pbar_n, exit, logged>>
       ELSE /\ Ends("We shouldn't have ended-up here!", {})
            /\ UNCHANGED <<pbar_n, reported>>
    /\ UNCHANGED <<now, file, execution_after, zpool, ALL_ZPOOLS, IS_DEBUGGER, IS_SUDO,
                   elapsed, status, addval, cmds, hist, arg, ret>>

\* lines 91-97 with a scrub that ended with errors submitted again
report_outcome_resubmit ==
    /\ pc = "report"
    /\ IF status = "NO_ERRORS"
       THEN /\ pbar_n' = pbar_update(pbar_n, 10000 - pbar_n)
            /\ reported' = "no errors"
            /\ pc' = "write"
            /\ UNCHANGED <<exit, logged>>
       ELSE IF status = "ERRORS"
       THEN /\ reported' = "error"
            /\ pc' = "start"
            /\ UNCHANGED <<pbar_n, exit, logged>>
       ELSE /\ Ends("We shouldn't have ended-up here!", {})
            /\ UNCHANGED <<pbar_n, reported>>
    /\ UNCHANGED <<now, file, execution_after, zpool, ALL_ZPOOLS, IS_DEBUGGER, IS_SUDO,
                   elapsed, status, addval, cmds, hist, arg, ret>>

\* main.py lines 91-97: the outcome is logged ("finished with no errors" as
\* info, "finished with an error" as warning)
report_outcome ==
    /\ pc = "report"
    /\ IF status = "NO_ERRORS"
       THEN /\ pbar_n' = pbar_update(pbar_n, 10000 - pbar_n)
            /\ reported' = "no errors"
            /\ pc' = "write"
            /\ UNCHANGED <<exit, logged>>
       ELSE IF status = "ERRORS"
       THEN /\ reported' = "error"
            /\ pc' = "write"
            /\ UNCHANGED <<pbar_n, exit, logged>>
       ELSE /\ Ends("We shouldn't have ended-up here!", {})
            /\ UNCHANGED <<pbar_n, reported>>
    /\ UNCHANGED <<now, file, execution_after, zpool, ALL_ZPOOLS, IS_DEBUGGER, IS_SUDO,
                   elapsed, status, addval, cmds, hist, arg, ret>>

\* what open(..., "w") and file.write(...) leave behind: the new record, the
\* old one when open fails, an empty file when the write fails
written(f, clock, how) ==
    CASE how = "ok" -> isoformat(clock)
      [] how = "open fails" -> f
      [] how = "write fails" -> Garbage

\* main.py line 164, lines 53-59: write_last_execution_time(), then the end
\* of the script
write_last_execution_time ==
    /\ pc = "write"
    /\ \E how \in {"ok", "open fails", "write fails"} :
         /\ file' = written(file, now, how)
         /\ Ends("end of script",
                 IF how = "ok" THEN {} ELSE {"Error writing last execution time"})
    /\ hist' = [hist EXCEPT !.wrote = TRUE]
    /\ UNCHANGED <<now, execution_after, zpool, ALL_ZPOOLS, IS_DEBUGGER, IS_SUDO,
                   elapsed, status, addval, pbar_n, reported, cmds, arg, ret>>

\* main.py line 99, the warning of the except clause
InterruptNote == "Script was interrupted. The actual scrub, however, continues."

\* lines 98-100 without the raise: in the poll loop the interrupt is logged
\* and the loop goes on
Interrupt_swallowed ==
    /\ pc \notin {"idle", "exited"}
    /\ \E truncated \in BOOLEAN :
         /\ truncated => pc = "write"
         /\ file' = IF truncated THEN Garbage ELSE file
         /\ hist' = IF truncated THEN [hist EXCEPT !.wrote = TRUE] ELSE hist
    /\ IF pc = "monitor"
       THEN pc' = pc /\ exit' = exit /\ logged' = logged \cup {InterruptNote}
       ELSE Ends("KeyboardInterrupt", IF pc = "report" THEN {InterruptNote} ELSE {})
    /\ UNCHANGED <<now, execution_after, zpool, ALL_ZPOOLS, IS_DEBUGGER, IS_SUDO,
                   elapsed, status, addval, pbar_n, reported, cmds, arg, ret>>

\* KeyboardInterrupt or SystemExit reaches the process: inside the try of
\* lines 83-100 it is logged and raised again, elsewhere it just propagates.
\* Inside write_last_execution_time it may leave the file opened and empty.
Interrupt ==
    /\ pc \notin {"idle", "exited"}
    /\ \E truncated \in BOOLEAN :
         /\ truncated => pc = "write"
         /\ file' = IF truncated THEN Garbage ELSE file
         /\ hist' = IF truncated THEN [hist EXCEPT !.wrote = TRUE] ELSE hist
    /\ Ends("KeyboardInterrupt",
            IF pc \in {"monitor", "report"}
            THEN {InterruptNote}
            ELSE {})
    /\ UNCHANGED <<now, execution_after, zpool, ALL_ZPOOLS, IS_DEBUGGER, IS_SUDO,
                   elapsed, status, addval, pbar_n, reported, cmds, arg, ret>>

\* The process is gone; the next invocation starts afresh.
Reap ==
    /\ pc = "exited"
    /\ pc' = "idle"
    /\ Cleared
    /\ UNCHANGED <<now, file, arg, ret>>

Next ==
    \/ Tick
    \/ Damage
    \/ Launch
    \/ CheckAlreadyRunning
    \/ CheckPools
    \/ CheckSudo
    \/ CheckGate
    \/ SelectZpool
    \/ run_scrub_command
    \/ run_scrub_poll
    \/ open_progress_bar
    \/ monitor_poll
    \/ report_outcome
    \/ write_last_execution_time
    \/ Interrupt
    \/ Reap

Spec == Init /\ [][Next]_vars

\* main.py:80 as the interpreter runs it: zfs_helpers has no attribute
\* start_scrub, the lookup raises AttributeError before the try of line 83
start_scrub_unresolved ==
    /\ pc = "start"
    /\ Ends("AttributeError", {})
    /\ UNCHANGED <<now, file, execution_after, zpool, ALL_ZPOOLS, IS_DEBUGGER, IS_SUDO,
                   elapsed, status, addval, pbar_n, reported, cmds, hist, arg, ret>>

NextShipped ==
    \/ Tick
    \/ Damage
    \/ Launch
    \/ CheckAlreadyRunning
    \/ CheckPools
    \/ CheckSudo
    \/ CheckGate
    \/ SelectZpool
    \/ start_scrub_unresolved
    \/ Interrupt
    \/ Reap

SpecShipped == Init /\ [][NextShipped]_vars

----------------------------------------------------------------------------
(* main.py lines 103-111 and 143-145: two invocations side by side. In
   SpecGuard arg[p] is the command line invocation p was launched with and
   ret[p] is how far it has got. *)

Invocations == {1, 2}

Python3 == <<"p", "y", "t", "h", "o", "n", "3">>

\* the script as it may be named on the command line: "main.py",
\* "./main.py", "/opt/zsm/main.py"
ScriptPaths ==
    {<<"m", "a", "i", "n", ".", "p", "y">>,
     <<".", "/", "m", "a", "i", "n", ".", "p", "y">>,
     <<"/", "o", "p", "t", "/", "z", "s", "m", "/", "m", "a", "i", "n", ".", "p", "y">>}

RECURSIVE PathName(_)
\* Path(p).name: what follows the last "/"
PathName(path) ==
    IF \E i \in 1..Len(path) : path[i] = "/" THEN PathName(Tail(path)) ELSE path

\* the processes psutil.process_iter() yields: the invocations that have
\* been launched and have not exited, each with its pid and its cmdline()
ProcessTable(stage, cmdline) ==
    {[pid |-> q, cmdline |-> cmdline[q]] :
        q \in {i \in Invocations : stage[i] \in {"launched", "supervising", "writing"}}}

\* _is_already_running() in process self, whose __file__ is file_path:
\* `_script_name in _process.cmdline()` asks whether one of the arguments
\* of the other process equals the script's file name
is_already_running(self, file_path, table) ==
    \E proc \in table :
        /\ proc.pid # self
        /\ \E i \in 1..Len(proc.cmdline) : proc.cmdline[i] = PathName(file_path)

InitGuard ==
    /\ ProgIdle
    /\ file = NoFile
    /\ arg \in [Invocations -> {<<Python3, path>> : path \in ScriptPaths}]
    /\ ret = [p \in Invocations |-> "none"]

\* the process is created and is in the process table from here on
LaunchInvocation(p) ==
    /\ ret[p] = "none"
    /\ ret' = [ret EXCEPT ![p] = "launched"]
    /\ UNCHANGED <<progvars, arg>>

\* lines 143-145: exit(0) when another instance is found, else the
\* invocation goes on to line 146
PassGuard(p) ==
    /\ ret[p] = "launched"
    /\ ret' = [ret EXCEPT ![p] =
                  IF is_already_running(p, arg[p][2], ProcessTable(ret, arg))
                  THEN "exited" ELSE "supervising"]
    /\ UNCHANGED <<progvars, arg>>

\* line 163 is over, line 164 is next
FinishSupervision(p) ==
    /\ ret[p] = "supervising"
    /\ ret' = [ret EXCEPT ![p] = "writing"]
    /\ UNCHANGED <<progvars, arg>>

\* the process ends, by an exit, an error, an interrupt or the end of the
\* script, and leaves the process table
ExitInvocation(p) ==
    /\ ret[p] \in {"supervising", "writing"}
    /\ ret' = [ret EXCEPT ![p] = "exited"]
    /\ UNCHANGED <<progvars, arg>>

NextGuard ==
    \E p \in Invocations :
        \/ LaunchInvocation(p)
        \/ PassGuard(p)
        \/ FinishSupervision(p)
        \/ ExitInvocation(p)

SpecGuard == InitGuard /\ [][NextGuard]_vars

----------------------------------------------------------------------------
(* Claims about the supervision and the record *)

Terminal == {"NO_ERRORS", "ERRORS"}

\* the duration the claims give each policy, in days
ClaimedDuration(policy) ==
    CASE policy = "day" -> 1 [] policy = "week" -> 7
      [] policy = "2weeks" -> 14 [] policy = "month" -> 30

\* C1: the supervisor leaves its poll loop and logs a terminal outcome only
\* after a status query that did not answer Scanning: whenever an outcome has
\* been logged, or is about to be, the most recent observation is terminal,
\* and the outcome logged is the one observed.
C1_OutcomeOnlyAfterTerminal ==
    /\ (pc = "report" \/ reported # "None") => status \in Terminal
    /\ reported = "no errors" => status = "NO_ERRORS"
    /\ reported = "error" => status = "ERRORS"

\* success logged after the supervisor had seen the pool scanning
C1_Witness ==
    /\ reported = "no errors"
    /\ hist.seen >= 0
    /\ status = "NO_ERRORS"

\* C2: the start command is issued (and status is queried) only if no prior
\* run could be read from the record or at least the policy's duration has
\* passed since the recorded time; when less has passed, the invocation ends
\* at the gate with no start command, no status query and the record as it was.
C2_GateGuardsTheStart ==
    /\ (execution_after # "None" /\ (cmds.scrub > 0 \/ cmds.status > 0)) =>
           /\ hist.gated
           /\ \/ ~hist.last.some
              \/ now - hist.last.t >= ClaimedDuration(execution_after)
    /\ (/\ hist.gated /\ hist.last.some
        /\ now - hist.last.t < ClaimedDuration(execution_after)) =>
           /\ pc = "exited" /\ exit = "exit(0)"
           /\ cmds = NoCmds
           /\ file = hist.file0

\* a scrub started by the week policy on the seventh day after the record
C2_Witness ==
    /\ cmds.scrub = 1
    /\ execution_after = "week"
    /\ hist.last.some
    /\ now - hist.last.t = 7

\* the failures of starting and of querying
RunFailures ==
    {"Error while running scrub", "Timeout while starting scrub",
     "Error while getting scrub status", "Unexpected output format"}

\* C3: the record is written only after the scan was confirmed started and a
\* terminal state was observed and logged, and it is written (the write is
\* made) in both terminal cases when the invocation runs to its end; it is
\* left as it was when the start fails or times out, when a status query
\* fails or is malformed, and when the run is interrupted.
C3_RecordOnlyAfterCompletedRun ==
    /\ hist.wrote => (hist.confirmed /\ reported # "None" /\ status \in Terminal)
    /\ (pc # "idle" /\ ~hist.wrote) => file = hist.file0
    /\ (pc = "exited" /\ reported # "None" /\ exit # "KeyboardInterrupt") => hist.wrote
    /\ (pc = "exited" /\ exit \in RunFailures) => (~hist.wrote /\ reported = "None")
    /\ (pc = "exited" /\ exit = "KeyboardInterrupt" /\ reported = "None") => ~hist.wrote

\* a scrub that ended with errors, and the record renewed
C3_Witness ==
    /\ pc = "exited"
    /\ exit = "end of script"
    /\ reported = "error"
    /\ hist.wrote
    /\ file = isoformat(now)
    /\ file # hist.file0

\* C4: the progress shown never decreases during a Running session, also
\* when an observed percent is lower than the one before (increments are
\* clamped to >= 0).
C4_ProgressNeverDecreases == [][pc = "monitor" => pbar_n' >= pbar_n]_vars

\* C5: when the success outcome is logged the bar stands at exactly 100,
\* whatever was observed before; with the error outcome it stands where the
\* last Scanning observation of the supervisor left it (0 without any).
C5_SuccessFillsTheBar ==
    /\ reported = "no errors" => pbar_n = 10000
    /\ reported = "error" => pbar_n = (IF hist.seen = -1 THEN 0 ELSE hist.seen)

\* success after a last observation of 12.34%
C5_Witness ==
    /\ reported = "no errors"
    /\ hist.seen = 1234
    /\ pbar_n = 10000

\* C6 as claimed: run_scrub returns only on a Scanning observation made
\* within the budget, and raises the timeout iff the status stayed
\* non-Scanning for the whole budget.
C6_StartedOnlyWithinBudget ==
    /\ pc = "started" => (status = "SCANNING" /\ elapsed <= TimeoutTicks)
    /\ (pc = "exited" /\ exit = "Timeout while starting scrub") =>
           (status \in Terminal /\ elapsed > TimeoutTicks)

\* C6 amended: run_scrub returns only on a poll that observed Scanning, be
\* it a poll that ends after the budget; while it polls, every observation
\* so far was non-Scanning and made within the budget; it raises the timeout
\* only on a non-Scanning observation made after the budget.
C6_StartedIffScanningObserved ==
    /\ pc = "started" => (status = "SCANNING" /\ hist.confirmed)
    /\ pc = "confirm" => (status # "SCANNING" /\ elapsed <= TimeoutTicks /\ ~hist.confirmed)
    /\ (pc = "exited" /\ exit = "Timeout while starting scrub") =>
           (status \in Terminal /\ elapsed > TimeoutTicks /\ ~hist.confirmed)

\* started by a Scanning observation made after the budget
C6_Witness ==
    /\ pc = "started"
    /\ status = "SCANNING"
    /\ elapsed > TimeoutTicks

----------------------------------------------------------------------------
(* Claims about is_execution_necessary *)

\* C7: for a recorded timestamp t and each policy, is_execution_necessary is
\* false for every now < t + duration (also for now < t) and true for every
\* now >= t + duration: it flips exactly at t + duration and never flips back.
C7_GateFlipsAtDuration ==
    (ret.called /\ arg.file.kind = "iso" /\ arg.io_ok) =>
        /\ ret.value.exc = "None"
        /\ ret.value.value = (arg.now >= arg.file.t + ClaimedDuration(arg.execution_after))

\* the month policy answering true on the very day the 30 days are over
C7_Witness ==
    /\ ret.called
    /\ arg.file.kind = "iso" /\ arg.io_ok
    /\ arg.execution_after = "month"
    /\ arg.now = arg.file.t + 30
    /\ ret.value.value = TRUE

\* C8: with the record absent, unreadable or unparsable the gate answers
\* "necessary" for every policy, and no error leaves it.
C8_GateFailsOpen ==
    (ret.called /\ (arg.file.kind \in {"absent", "garbage"} \/ ~arg.io_ok)) =>
        ret.value = [exc |-> "None", value |-> TRUE]

\* an unparsable record, read without trouble, and the gate open
C8_Witness ==
    /\ ret.called
    /\ arg.file.kind = "garbage" /\ arg.io_ok
    /\ ret.value.value = TRUE

----------------------------------------------------------------------------
(* Claims about get_scrub_status *)

\* A percentage token as a reader of the text counts them: a "%" that ends a
\* decimal literal (digits, a point, digits), the literal taken whole.
RECURSIVE LiteralStart(_, _)
LiteralStart(s, k) ==
    IF k > 1 /\ s[k - 1] \in Digits \cup {"."} THEN LiteralStart(s, k - 1) ELSE k

IsDecimal(l) ==
    \E d \in 2..(Len(l) - 1) :
        /\ l[d] = "."
        /\ \A k \in 1..Len(l) : k # d => l[k] \in Digits

PercentTokens(s) ==
    {k \in 1..Len(s) : s[k] = "%" /\ IsDecimal(SubSeq(s, LiteralStart(s, k), k - 1))}

RECURSIVE DigitsValue(_)
DigitsValue(ds) ==
    IF ds = <<>> THEN 0
    ELSE 10 * DigitsValue(SubSeq(ds, 1, Len(ds) - 1)) + DigitVal(ds[Len(ds)])

\* the value of the token ending at k, in hundredths (literals of the texts
\* have at most two decimals)
TokenValue(s, k) ==
    LET l == SubSeq(s, LiteralStart(s, k), k - 1)
        d == CHOOSE i \in 1..Len(l) : l[i] = "."
        decimals == SubSeq(l, d + 1, Len(l))
    IN  100 * DigitsValue(SubSeq(l, 1, d - 1))
          + (IF Len(decimals) = 1 THEN 10 ELSE 1) * DigitsValue(decimals)

\* C9: a status text with exactly one percentage token p, 0 <= p <= 100,
\* parses to Scanning with progress exactly p, whether or not the text also
\* has an errors: line.
C9_OneTokenParsesToItsValue ==
    (ret.called /\ arg.returncode = 0 /\ Cardinality(PercentTokens(arg.stdout)) = 1) =>
        LET p == TokenValue(arg.stdout, CHOOSE k \in PercentTokens(arg.stdout) : TRUE)
        IN  p \in 0..10000 =>
                /\ ret.value.exc = "None"
                /\ ret.value.status = "SCANNING"
                /\ ret.value.percent = p

\* C9 for tokens of at most two integer digits (support; the claim fails at 100)
C9_BelowHundred ==
    (ret.called /\ arg.returncode = 0 /\ Cardinality(PercentTokens(arg.stdout)) = 1) =>
        LET p == TokenValue(arg.stdout, CHOOSE k \in PercentTokens(arg.stdout) : TRUE)
        IN  p \in 0..9999 =>
                /\ ret.value.exc = "None"
                /\ ret.value.status = "SCANNING"
                /\ ret.value.percent = p

RECURSIVE SplitLines(_)
\* the lines of a text
SplitLines(s) ==
    IF s = <<>> THEN <<>>
    ELSE LET brk == {i \in 1..Len(s) : s[i] = "\n"}
         IN  IF brk = {} THEN <<s>>
             ELSE LET b == CHOOSE i \in brk : \A j \in brk : i <= j
                  IN  <<SubSeq(s, 1, b - 1)>> \o SplitLines(SubSeq(s, b + 1, Len(s)))

IsErrorsLine(l) ==
    Len(l) >= 7 /\ [k \in 1..7 |-> Lower(l[k])] = <<"e", "r", "r", "o", "r", "s", ":">>

RECURSIVE TrimLeft(_)
TrimLeft(l) ==
    IF l # <<>> /\ Head(l) \in {" ", "\t"} THEN TrimLeft(Tail(l)) ELSE l

\* the remainder of the first errors: line, blanks after the colon dropped
ErrorsRemainder(s) ==
    LET ls == SplitLines(s)
        k == CHOOSE i \in 1..Len(ls) :
                 IsErrorsLine(ls[i]) /\ \A j \in 1..(i - 1) : ~IsErrorsLine(ls[j])
    IN  TrimLeft(SubSeq(ls[k], 8, Len(ls[k])))

HasErrorsLine(s) == \E i \in 1..Len(SplitLines(s)) : IsErrorsLine(SplitLines(s)[i])

StartsWithNo(r) ==
    Len(r) >= 3 /\ r[1] \in {"n", "N"} /\ r[2] \in {"o", "O"} /\ r[3] = " "

\* C10: a status text with no percentage token and an errors: line parses to
\* CompletedNoErrors when the remainder of that line starts with "no " (in
\* any case) and to CompletedWithErrors otherwise, never to Scanning.
C10_ErrorsLineDecides ==
    (/\ ret.called /\ arg.returncode = 0
     /\ PercentTokens(arg.stdout) = {}
     /\ HasErrorsLine(arg.stdout)) =>
        /\ ret.value.exc = "None"
        /\ ret.value.status =
              IF StartsWithNo(ErrorsRemainder(arg.stdout)) THEN "NO_ERRORS" ELSE "ERRORS"

\* C10 where the errors: line has text after the colon (support; the claim
\* fails on a blank remainder followed by another line)
C10_NonBlankRemainder ==
    (/\ ret.called /\ arg.returncode = 0
     /\ PercentTokens(arg.stdout) = {}
     /\ HasErrorsLine(arg.stdout)
     /\ ErrorsRemainder(arg.stdout) # <<>>) =>
        /\ ret.value.exc = "None"
        /\ ret.value.status =
              IF StartsWithNo(ErrorsRemainder(arg.stdout)) THEN "NO_ERRORS" ELSE "ERRORS"

\* C11: a status text with two or more percentage tokens, or with neither a
\* percentage token nor an errors: line, makes get_scrub_status raise the
\* "Unexpected output format" error; no status is returned.
C11_MalformedTextRaises ==
    (/\ ret.called /\ arg.returncode = 0
     /\ \/ Cardinality(PercentTokens(arg.stdout)) >= 2
        \/ (PercentTokens(arg.stdout) = {} /\ ~HasErrorsLine(arg.stdout))) =>
        /\ ret.value.exc = "Unexpected output format"
        /\ ret.value.status = "None"

\* two percentage tokens, and the error raised
C11_Witness ==
    /\ ret.called /\ arg.returncode = 0
    /\ Cardinality(PercentTokens(arg.stdout)) = 2
    /\ ret.value.exc = "Unexpected output format"

\* neither a token nor an errors: line in a text that is not empty
C11_WitnessNeither ==
    /\ ret.called /\ arg.returncode = 0
    /\ arg.stdout # <<>>
    /\ PercentTokens(arg.stdout) = {} /\ ~HasErrorsLine(arg.stdout)
    /\ ret.value.exc = "Unexpected output format"

----------------------------------------------------------------------------
(* Claims about failures and interrupts of an invocation *)

\* C12: an interrupt that arrives in the poll loop is logged with the note
\* that the scrub continues and raised again: the step that handles it ends
\* the process with the interrupt, issues no command, reports no outcome and
\* leaves the record alone; and the note is never logged by a process that
\* goes on running, reports an outcome or writes the record.
C12_InterruptLoggedAndReraised ==
    [][/\ (pc = "monitor" /\ exit' = "KeyboardInterrupt") =>
            /\ pc' = "exited"
            /\ InterruptNote \in logged'
            /\ cmds' = cmds
            /\ reported' = "None"
            /\ file' = file /\ ~hist'.wrote
       /\ InterruptNote \in logged' =>
            /\ pc' = "exited" /\ exit' = "KeyboardInterrupt"
            /\ reported' = "None"
            /\ file' = hist'.file0 /\ ~hist'.wrote]_vars

\* interrupted after the supervisor had forwarded progress
C12_Witness ==
    /\ pc = "exited" /\ exit = "KeyboardInterrupt"
    /\ InterruptNote \in logged
    /\ status = "SCANNING" /\ hist.seen = 1234 /\ pbar_n = 1234
    /\ cmds.scrub = 1

\* whether _zpool is one of _ALL_ZPOOLS (line 160)
Listed(name) == \E i \in 1..Len(ALL_ZPOOLS) : ALL_ZPOOLS[i] = name

\* C13: a scrub is started and supervised only for a pool of the discovered
\* set: for a requested pool that is not in it, no start command and no
\* status query is issued.
C13_UnknownPoolIsRejected ==
    (zpool.given /\ ~Listed(zpool.name)) => cmds = NoCmds

\* the ways an invocation ends before line 163
EndsBeforeTheRun == {"exit(0)", "exit(1)", "Error while getting all zpools"}

\* C14: an invocation that the gate let through, whose start command
\* succeeds, whose pool is seen scanning within the budget and terminal later,
\* and which is not interrupted, runs to the end of the script, having
\* confirmed the start, reported the outcome and written the record: an
\* invocation that is over has ended before the run, by a failed command or
\* query, a timeout or an interrupt, or at the end of the script with all
\* three done.
C14_PermittedRunCompletes ==
    pc = "exited" =>
        \/ exit \in EndsBeforeTheRun
        \/ exit \in RunFailures \cup {"KeyboardInterrupt"}
        \/ /\ exit = "end of script"
           /\ hist.confirmed /\ reported # "None" /\ hist.wrote

\* what get_all_zpools returns when the listing printed nothing
NoPoolFound == ALL_ZPOOLS = get_all_zpools([returncode |-> 0, stdout |-> <<>>]).list

\* C15: when the discovery finds no pool the program does nothing: no start
\* command, no status query, no write of the record.
C15_NoPoolNoAction ==
    (pc # "idle" /\ NoPoolFound) => (cmds = NoCmds /\ ~hist.wrote)

\* C16: within one invocation `zpool scrub` is issued at most once: it has
\* been issued exactly once while the starter polls and from then on (never
\* under a debugger), and not again after a failed start command, a timeout,
\* a malformed status or a scrub that ended with errors.
C16_StartIssuedAtMostOnce ==
    /\ cmds.scrub <= 1
    /\ pc \in {"confirm", "started", "monitor", "report", "write"} =>
           cmds.scrub = (IF IS_DEBUGGER THEN 0 ELSE 1)
    /\ (pc = "exited" /\ (exit \in RunFailures \/ reported = "error")) =>
           cmds.scrub = (IF IS_DEBUGGER THEN 0 ELSE 1)

\* a scrub that ended with errors, reported, and the invocation over
C16_Witness ==
    /\ pc = "exited" /\ exit = "end of script"
    /\ reported = "error"
    /\ cmds.scrub = 1

\* C17: when the starter fails (the start command fails, a status query of
\* the confirmation fails or is malformed, or the start times out) the
\* invocation ends at that step with that failure, the start unconfirmed;
\* and an invocation that ended with a failure before the start was
\* confirmed has opened no bar, forwarded no progress and reported no outcome.
C17_StarterFailureEndsSupervision ==
    [][/\ (pc \in {"start", "confirm"} /\ exit' # "None") =>
            /\ pc' = "exited"
            /\ exit' \in RunFailures \cup {"KeyboardInterrupt"}
            /\ ~hist'.confirmed
       /\ exit' \in {"Error while running scrub", "Timeout while starting scrub"} =>
            ~hist'.confirmed
       /\ (exit' \in RunFailures /\ ~hist'.confirmed) =>
            /\ pc' = "exited"
            /\ pbar_n' = 0 /\ hist'.seen = -1
            /\ reported' = "None"
            /\ ~hist'.wrote]_vars

\* the start timed out after the command had been issued
C17_Witness ==
    /\ pc = "exited" /\ exit = "Timeout while starting scrub"
    /\ cmds.scrub = 1 /\ elapsed > TimeoutTicks
    /\ pbar_n = 0 /\ reported = "None"

\* the errors get_scrub_status logs and raises
QueryFailures == {"Error while getting scrub status", "Unexpected output format"}

\* C18: a failed or malformed status query in the poll loop is a hard stop:
\* the step that meets it ends the invocation with that error, the bar where
\* it was, no outcome reported and the record not written; the error is
\* never logged by a process that goes on; and a process that is over
\* queries and forwards nothing more.
C18_QueryFailureIsAHardStop ==
    [][/\ (pc = "monitor" /\ exit' \in QueryFailures) =>
            /\ pc' = "exited"
            /\ pbar_n' = pbar_n
            /\ reported' = "None"
            /\ file' = file /\ ~hist'.wrote
       /\ \A e \in QueryFailures : e \in logged' =>
            /\ pc' = "exited" /\ exit' = e
            /\ reported' = "None" /\ ~hist'.wrote
       /\ pc = "exited" => (pc' = "idle" /\ cmds' = NoCmds /\ pbar_n' = 0)]_vars

\* a malformed status met after progress had been forwarded
C18_Witness ==
    /\ pc = "exited" /\ exit = "Unexpected output format"
    /\ hist.confirmed /\ hist.seen = 1234 /\ pbar_n = 1234
    /\ reported = "None" /\ ~hist.wrote

----------------------------------------------------------------------------
(* Claims about the already-running guard *)

\* the invocations past the guard: supervising, or writing the record
PastGuard == {p \in Invocations : ret[p] \in {"supervising", "writing"}}

\* C19: of two invocations, launched and interleaved in any way and each in
\* the process table from its launch to its exit, at most one is past the
\* already-running guard at any time.
C19_AtMostOnePastGuard == Cardinality(PastGuard) <= 1

\* C19 for invocations that both name the script as plain "main.py"
\* (support; the claim fails for a script named by a path)
C19_PlainScriptName ==
    (\A p \in Invocations : arg[p][2] = PathName(arg[p][2])) => Cardinality(PastGuard) <= 1

====
